---- MODULE Spec2Model ----
(***************************************************************************)
(* The session state machine of the trivia board game (src/app.py).        *)
(*                                                                         *)
(* A Flask session is a dictionary: it is modelled as a function whose     *)
(* domain is the set of keys present, so that a missing key                *)
(* (session.get(k, default)) differs from a key holding None.  Python      *)
(* strings are sequences of one-character strings, so that strip() and     *)
(* slicing are computed.  None is the empty sequence and a value v that    *)
(* may be None is <<v>>.  The display-only keys (message, flashes) are     *)
(* left out: no handler reads them.                                        *)
(*                                                                         *)
(* The scoreboard is the players table of the SQLite file: players_table   *)
(* is its committed content, the rows in rowid order, tx the transaction   *)
(* each request handler has open on its own connection, and log the        *)
(* history of the requests that committed, in commit order.  The id and    *)
(* the timestamps of a row are left out: nothing reads them.               *)
(***************************************************************************)
EXTENDS Integers, Sequences, FiniteSets, TLC

VARIABLES session, recorded, players_table, tx, log, board

vars == <<session, recorded, players_table, tx, log, board>>

(* the scoreboard, which the game requests of one session leave alone *)
store == <<players_table, tx, log>>

(* the session, which the scoreboard requests leave alone *)
game == <<session, recorded>>

----------------------------------------------------------------------------
(* Program constants *)

BOARD_SIZE == 24
MAX_PLAYERS == 4
MAX_QUESTIONS_IN_SESSION == 300
NAME_LEN == 20

(* the prompts are written in ASCII: x for the multiplication sign, / for *)
(* the division sign, r for the root sign and ^2 for the superscript 2;   *)
(* the answers are as in the source                                       *)
DEFAULT_QUESTIONS ==
    << [q |-> <<"2", " ", "+", " ", "2">>,  a |-> <<"4">>],
       [q |-> <<"9", " ", "x", " ", "4">>,  a |-> <<"3", "6">>],
       [q |-> <<"7", " ", "x", " ", "8">>,  a |-> <<"5", "6">>],
       [q |-> <<"9", " ", "/", " ", "3">>,  a |-> <<"3">>],
       [q |-> <<"r", "8", "1">>,            a |-> <<"9">>],
       [q |-> <<"r", "4", "9">>,            a |-> <<"7">>],
       [q |-> <<"1", "2", " ", "/", " ", "4">>, a |-> <<"3">>],
       [q |-> <<"1", "5", " ", "+", " ", "5">>, a |-> <<"2", "0">>],
       [q |-> <<"1", "1", " ", "x", " ", "8">>, a |-> <<"8", "8">>],
       [q |-> <<"1", "4", "^", "2">>,       a |-> <<"1", "9", "6">>] >>

----------------------------------------------------------------------------
(* Python values *)

None == <<>>
Some(v) == <<v>>

(* the ASCII whitespace str.strip() removes *)
Whitespace == {" ", "\t", "\n", "\r", "\f"}

RECURSIVE lstrip(_)
lstrip(s) ==
    IF s = <<>> THEN s
    ELSE IF Head(s) \in Whitespace THEN lstrip(Tail(s)) ELSE s

RECURSIVE rstrip(_)
rstrip(s) ==
    IF s = <<>> THEN s
    ELSE IF s[Len(s)] \in Whitespace THEN rstrip(SubSeq(s, 1, Len(s) - 1)) ELSE s

(* str.strip() *)
strip(s) == rstrip(lstrip(s))

(* s[:n] *)
Prefix(s, n) == SubSeq(s, 1, IF Len(s) < n THEN Len(s) ELSE n)

Min(a, b) == IF a < b THEN a ELSE b
Max(a, b) == IF a > b THEN a ELSE b

(* session.get(k, default) and session[k] = v *)
Get(s, k, default) == IF k \in DOMAIN s THEN s[k] ELSE default
Put(s, k, v) == (k :> v) @@ s

(* truthiness of session.get("players") and session.get("awaiting_answer") *)
HasPlayers(s) == Get(s, "players", <<>>) # <<>>
Awaiting(s) == Get(s, "awaiting_answer", FALSE)

----------------------------------------------------------------------------
(* Game logic *)

new_game ==
    [players          |-> <<>>,
     turn             |-> 0,
     awaiting_answer  |-> FALSE,
     current_question |-> None,
     last_roll        |-> None,
     questions        |-> DEFAULT_QUESTIONS]

current_index_first(s) == 1

(* the index, from 1, of the token current_player() returns *)
current_index(s) == (Get(s, "turn", 0) % Len(Get(s, "players", <<>>))) + 1

current_player(s) ==
    IF ~HasPlayers(s) THEN None ELSE Some(s.players[current_index(s)])

next_turn_unwrapped(s) == Put(s, "turn", s.turn + 1)

next_turn(s) == Put(s, "turn", (s.turn + 1) % Len(s.players))

(* the winner index() shows: the first token at or past the board size *)
winner(s) ==
    LET ps == Get(s, "players", <<>>)
        past == {i \in 1..Len(ps) : ps[i].pos >= BOARD_SIZE}
    IN  IF past = {} THEN None
        ELSE Some(ps[CHOOSE i \in past : \A j \in past : i <= j].name)

index(s) == IF "players" \notin DOMAIN s THEN new_game ELSE s

(* the names setup() keeps of a form: fields name1..name4, stripped, *)
(* empty ones dropped, cut to 20 characters *)
RECURSIVE form_names(_, _)
form_names(form, i) ==
    IF i > MAX_PLAYERS THEN <<>>
    ELSE LET name == strip(IF i \in DOMAIN form THEN form[i] ELSE <<>>)
         IN  (IF name # <<>> THEN <<Prefix(name, NAME_LEN)>> ELSE <<>>)
                 \o form_names(form, i + 1)

setup_accepts(form) ==
    LET names == form_names(form, 1)
    IN  Len(names) # 0 /\ ~(Len(names) > MAX_PLAYERS)

setup(s, form) ==
    LET names == form_names(form, 1)
    IN  IF Len(names) = 0 THEN s
        ELSE IF Len(names) > MAX_PLAYERS THEN s
        ELSE Put(Put(s, "players",
                     [i \in 1..Len(names) |-> [name |-> names[i], pos |-> 0]]),
                 "turn", 0)

(* the pool roll() draws from *)
pool(s) == Get(s, "questions", DEFAULT_QUESTIONS)

roll_unguarded(s, r, i) ==
    IF Awaiting(s) THEN s
    ELSE Put(Put(Put(s, "last_roll", Some(r)),
                 "current_question", Some(pool(s)[i])),
             "awaiting_answer", TRUE)

roll_redraws(s, r, i) ==
    IF ~HasPlayers(s) THEN s
    ELSE Put(Put(Put(s, "last_roll", Some(r)),
                 "current_question", Some(pool(s)[i])),
             "awaiting_answer", TRUE)

(* roll() with the die showing r and random.choice taking the i-th question *)
roll(s, r, i) ==
    IF ~HasPlayers(s) THEN s
    ELSE IF Awaiting(s) THEN s
    ELSE Put(Put(Put(s, "last_roll", Some(r)),
                 "current_question", Some(pool(s)[i])),
             "awaiting_answer", TRUE)

(* the comparison answer() makes of the posted answer with the question's *)
is_correct(form_answer, question) ==
    LET user_answer == strip(form_answer)
        correct_answer == strip(question.a)
    IN  user_answer = correct_answer

moved_pos_unclamped(pos, correct, rolled) ==
    IF correct THEN pos + rolled ELSE Max(0, pos - 1)

moved_pos_unfloored(pos, correct, rolled) ==
    IF correct THEN Min(BOARD_SIZE, pos + rolled) ELSE pos - 1

moved_pos_stays(pos, correct, rolled) ==
    IF correct THEN pos ELSE Max(0, pos - 1)

(* the position answer() gives the current player *)
moved_pos(pos, correct, rolled) ==
    IF correct THEN Min(BOARD_SIZE, pos + rolled) ELSE Max(0, pos - 1)

participant_names_winner_only(s) == <<s.players[current_index(s)].name>>

participant_names(s) == [i \in 1..Len(s.players) |-> s.players[i].name]

(* answer() with form field answer = form_answer: the session it leaves *)
(* and the calls it makes to record_game_result *)
answer(s, form_answer) ==
    IF ~Awaiting(s) THEN [session |-> s, calls |-> <<>>]
    ELSE
      LET rolled == IF s.last_roll = None THEN 0 ELSE s.last_roll[1]
          k == current_index(s)
          player == s.players[k]
          pos == moved_pos(player.pos,
                           is_correct(form_answer, s.current_question[1]), rolled)
          s1 == Put(s, "players", [s.players EXCEPT ![k].pos = pos])
          s2 == Put(Put(Put(s1, "awaiting_answer", FALSE),
                        "current_question", None),
                    "last_roll", None)
      IN  IF pos >= BOARD_SIZE
          THEN [session |-> s2,
                calls |-> << [winner_name |-> player.name,
                              participant_names |-> participant_names(s2)] >>]
          ELSE [session |-> next_turn(s2), calls |-> <<>>]

reset_keeps_pool(s) == [new_game EXCEPT !.questions = pool(s)]

reset(s) == new_game

upload_questions_untruncated(s, new_items) ==
    IF new_items = <<>> THEN s
    ELSE Put(s, "questions", Get(s, "questions", <<>>) \o new_items)

(* upload_questions() with new_items the items parsed from file and paste *)
upload_questions(s, new_items) ==
    IF new_items = <<>> THEN s
    ELSE Put(s, "questions",
             Prefix(Get(s, "questions", <<>>) \o new_items, MAX_QUESTIONS_IN_SESSION))

----------------------------------------------------------------------------
(* Persistence: the statements, as functions of the table they run on *)

new_row(n) == [name |-> n, wins |-> 0, games_played |-> 0]

has_row(table, n) == \E i \in 1..Len(table) : table[i].name = n

insert_always(table, n) == Append(table, new_row(n))

(* INSERT OR IGNORE INTO players (name, wins, games_played, ...) with    *)
(* name UNIQUE: no row is added when one of that name is there           *)
insert_or_ignore(table, n) ==
    IF has_row(table, n) THEN table ELSE Append(table, new_row(n))

(* UPDATE players SET games_played = games_played + 1 WHERE name = ? *)
update_games_played(table, n) ==
    [i \in 1..Len(table) |->
        IF table[i].name = n THEN [table[i] EXCEPT !.games_played = @ + 1]
        ELSE table[i]]

update_wins_everywhere(table, n) ==
    [i \in 1..Len(table) |-> [table[i] EXCEPT !.wins = @ + 1]]

(* UPDATE players SET wins = wins + 1 WHERE name = ? *)
update_wins(table, n) ==
    [i \in 1..Len(table) |->
        IF table[i].name = n THEN [table[i] EXCEPT !.wins = @ + 1]
        ELSE table[i]]

(* DELETE FROM players, and DELETE FROM players WHERE name = ? *)
delete_all(table) == <<>>
delete_where_name(table, n) == SelectSeq(table, LAMBDA row : row.name # n)

(* name TEXT UNIQUE *)
OneRowPerName(table) ==
    \A i, j \in 1..Len(table) : table[i].name = table[j].name => i = j

(* the code points of the characters of the names followed here *)
Code ==
    ("A" :> 65) @@ ("B" :> 66) @@ ("C" :> 67) @@ ("D" :> 68) @@ ("E" :> 69) @@
    ("d" :> 100) @@ ("i" :> 105) @@ ("l" :> 108) @@ ("o" :> 111) @@
    ("y" :> 121) @@ ("z" :> 122) @@ (" " :> 32) @@ ("\t" :> 9)

(* name ASC, in the BINARY collation of the column: a < b when a is a   *)
(* proper prefix of b or has the smaller character where they differ    *)
name_less(a, b) ==
    \E k \in 1..(Len(b)) :
        /\ \A j \in 1..(k - 1) : j <= Len(a) /\ a[j] = b[j]
        /\ \/ k = Len(a) + 1
           \/ k <= Len(a) /\ Code[a[k]] < Code[b[k]]

(* CASE WHEN games_played > 0 THEN ROUND(100.0 * wins / games_played, 1) *)
(* ELSE 0 END, in tenths of a percent                                    *)
win_rate(row) ==
    IF row.games_played > 0
    THEN (2000 * row.wins + row.games_played) \div (2 * row.games_played)
    ELSE 0

(* SELECT name, wins, games_played, ... AS win_rate *)
select(row) ==
    [name |-> row.name, wins |-> row.wins, games_played |-> row.games_played,
     win_rate |-> win_rate(row)]

(* ORDER BY wins DESC, name ASC *)
ranks_before(r1, r2) ==
    \/ r1.wins > r2.wins
    \/ r1.wins = r2.wins /\ name_less(r1.name, r2.name)

RECURSIVE order_by(_)
order_by(rows) ==
    IF rows = {} THEN <<>>
    ELSE LET first == CHOOSE r \in rows :
                          \A o \in rows \ {r} : ranks_before(r, o)
         IN  <<first>> \o order_by(rows \ {first})

top_scoreboard_in_table_order(table, limit) ==
    Prefix([i \in 1..Len(table) |-> select(table[i])], limit)

(* the rows top_scoreboard(limit) returns, for a limit of 0 or more *)
top_scoreboard(table, limit) ==
    Prefix(order_by({select(table[i]) : i \in 1..Len(table)}), limit)

(* the limit of the scoreboard on the page, and the limit of the export *)
DEFAULT_LIMIT == 50
EXPORT_LIMIT == 100000

(* a statement is its operation and its parameter *)
Stmt(op, n) == [op |-> op, name |-> n]
Commit == Stmt("commit", <<>>)

execute(table, stmt) ==
    CASE stmt.op = "insert"     -> insert_or_ignore(table, stmt.name)
      [] stmt.op = "played"     -> update_games_played(table, stmt.name)
      [] stmt.op = "won"        -> update_wins(table, stmt.name)
      [] stmt.op = "delete_all" -> delete_all(table)
      [] stmt.op = "delete"     -> delete_where_name(table, stmt.name)

record_game_result_commits_inserts(winner_n, participant_ns) ==
    [i \in 1..Len(participant_ns) |-> Stmt("insert", participant_ns[i])]
        \o <<Commit>>
        \o [i \in 1..Len(participant_ns) |-> Stmt("played", participant_ns[i])]
        \o <<Stmt("won", winner_n), Commit>>

(* the statements record_game_result runs on its connection, in order *)
record_game_result(winner_n, participant_ns) ==
    [i \in 1..Len(participant_ns) |-> Stmt("insert", participant_ns[i])]
        \o [i \in 1..Len(participant_ns) |-> Stmt("played", participant_ns[i])]
        \o <<Stmt("won", winner_n), Commit>>

(* the statements of /admin/reset, for a request with the admin token *)
admin_reset == <<Stmt("delete_all", <<>>), Commit>>

(* the statements of /admin/delete_player?name=..., likewise; none when *)
(* the name is blank (400) *)
admin_delete_player(arg_name) ==
    LET name == strip(arg_name)
    IN  IF name = <<>> THEN <<>> ELSE <<Stmt("delete", name), Commit>>

(* a request to the scoreboard: a game result (name the winner, names  *)
(* the participants), or a purge of all rows or of the rows of a name  *)
Request(kind, n, ns) == [kind |-> kind, name |-> n, names |-> ns]

program(req) ==
    CASE req.kind = "record"        -> record_game_result(req.name, req.names)
      [] req.kind = "reset"         -> admin_reset
      [] req.kind = "delete_player" -> admin_delete_player(req.name)

(* a connection with no request running *)
Idle == [pc |-> 0, req |-> Request("none", <<>>, <<>>), locked |-> FALSE,
         work |-> <<>>, before |-> None]

----------------------------------------------------------------------------
(* Bounds and inputs *)

(* a game is followed until it has recorded MaxCalls results *)
MaxCalls == 2
(* a game of one or two tokens drawing from a pool without uploaded items *)
(* is followed while the token behind the leader is below MaxBehind *)
MaxBehind == 1
(* any other game, and a session merging uploaded items into its pool, *)
(* is followed while its positions total less than MaxTotal *)
MaxTotal == 1
(* at most MaxUploaded uploaded items are merged into a pool *)
MaxUploaded == 1

Al == <<"A", "l">>
Bo == <<"B", "o">>
Cy == <<"C", "y">>
Di == <<"D", "i">>
Ed == <<"E", "d">>
LongName == [i \in 1..(NAME_LEN + 1) |-> "z"]

(* the forms posted to /setup: fields name1, name2, ... *)
Forms ==
    { <<>>,
      << <<" ", " ">>, <<>> >>,
      << <<" ", "A", "l", " ">> >>,
      << <<>>, Bo, <<"\t">>, Al >>,
      << LongName, Bo, Cy, Di >>,
      << Al, Bo, Cy, Di, Ed >> }

Uploaded == [q |-> <<"1", "+", "1">>, a |-> <<"2">>]

(* the item lists posted to /upload_questions *)
Uploads == { <<>>, <<Uploaded>> }

(* the answers posted to /answer: three of the expected answers, one of *)
(* them also padded with whitespace, a wrong one and an empty one *)
Answers ==
    { DEFAULT_QUESTIONS[1].a, DEFAULT_QUESTIONS[4].a, Uploaded.a,
      <<" ", "4", "\n">>, <<"4", "2">>, <<>> }

Dice == 1..6

(* the connections with a scoreboard request running at the same time *)
NumProcs == 2
Procs == 1..NumProcs
(* the scoreboard is followed until MaxOps requests have committed *)
MaxOps == 3

(* the player lists of the games whose results are recorded: a name may *)
(* be entered twice *)
StoreForms == { <<Al>>, <<Bo, Al>>, <<Al, Al>> }

(* the calls answer() makes for those games: any of the players wins *)
GameResults ==
    UNION { { Request("record", participant_names([players |-> ps])[k],
                      participant_names([players |-> ps])) : k \in 1..Len(ps) } :
            ps \in { setup(<<>>, form).players : form \in StoreForms } }

(* the purges requested with the admin token *)
Purges ==
    { Request("reset", <<>>, <<>>),
      Request("delete_player", <<" ", "A", "l">>, <<>>),
      Request("delete_player", <<" ">>, <<>>) }

StoreRequests == GameResults \cup Purges

RECURSIVE SumPos(_)
SumPos(ps) == IF ps = <<>> THEN 0 ELSE Head(ps).pos + SumPos(Tail(ps))

MaxPos(ps) == CHOOSE m \in {ps[i].pos : i \in 1..Len(ps)} :
                  \A i \in 1..Len(ps) : ps[i].pos <= m

Behind(ps) == IF ps = <<>> THEN 0 ELSE SumPos(ps) - MaxPos(ps)

UploadedCount(qs) == Len(SelectSeq(qs, LAMBDA item : item = Uploaded))

Followed ==
    LET ps == Get(session, "players", <<>>)
    IN  /\ Len(recorded) < MaxCalls
        /\ IF Len(ps) <= 2 /\ UploadedCount(pool(session)) = 0
           THEN Behind(ps) < MaxBehind
           ELSE SumPos(ps) < MaxTotal

(* the questions random.choice is followed taking: the first, the     *)
(* fourth and the last of the pool                                     *)
Choices(qs) == {i \in {1, 4, Len(qs)} : i <= Len(qs)}

(* the draws roll() makes: none when it returns before drawing *)
Draws(s) ==
    IF HasPlayers(s) /\ ~Awaiting(s)
    THEN Dice \X Choices(pool(s))
    ELSE {<<1, 1>>}

----------------------------------------------------------------------------
(* The requests.  recorded is the history of the calls to               *)
(* record_game_result made since the game was set up; what the calls do  *)
(* to the players table is followed in SpecStore.                        *)

Init ==
    /\ session = <<>>
    /\ recorded = <<>>
    /\ players_table = <<>>
    /\ tx = [p \in Procs |-> Idle]
    /\ log = <<>>
    /\ board = <<>>

GetIndex ==
    /\ session' = index(session)
    /\ board' = top_scoreboard(players_table, DEFAULT_LIMIT)
    /\ UNCHANGED <<recorded, store>>

PostSetup ==
    \E form \in Forms :
        /\ session' = setup(session, form)
        /\ recorded' = IF setup_accepts(form) THEN <<>> ELSE recorded
        /\ UNCHANGED <<store, board>>

PostRoll ==
    /\ Followed
    /\ \E d \in Draws(session) :
           session' = roll(session, d[1], d[2])
    /\ UNCHANGED <<recorded, store, board>>

PostAnswer ==
    \E form_answer \in Answers :
        LET done == answer(session, form_answer)
        IN  /\ session' = done.session
            /\ recorded' = recorded \o done.calls
            /\ UNCHANGED <<store, board>>

PostReset ==
    /\ session' = reset(session)
    /\ recorded' = <<>>
    /\ UNCHANGED <<store, board>>

PostUpload ==
    \E new_items \in Uploads :
        /\ UploadedCount(Get(session, "questions", <<>>)) + Len(new_items) <= MaxUploaded
        /\ SumPos(Get(session, "players", <<>>)) < MaxTotal
        /\ session' = upload_questions(session, new_items)
        /\ UNCHANGED <<recorded, store, board>>

Next ==
    \/ GetIndex
    \/ PostSetup
    \/ PostRoll
    \/ PostAnswer
    \/ PostReset
    \/ PostUpload

Spec == Init /\ [][Next]_vars

----------------------------------------------------------------------------
(* The scoreboard requests.  A connection runs the statements of its     *)
(* request one at a time.  Its first write takes the write lock of the   *)
(* database file, which one connection holds at a time, and opens a      *)
(* transaction on the committed table; commit publishes the              *)
(* transaction's table and frees the lock.  A statement, or the commit,  *)
(* may fail: the with-block of the handler then rolls the transaction    *)
(* back and the request ends.                                            *)

lock_always_free(p) == TRUE

(* the write lock of the database file is free for connection p when no *)
(* other connection has a transaction with a write in it *)
lock_free(p) == \A q \in Procs \ {p} : ~tx[q].locked

InFlight == Cardinality({p \in Procs : tx[p].pc > 0})

Start(p) ==
    /\ tx[p].pc = 0
    /\ Len(log) + InFlight < MaxOps
    /\ \E req \in StoreRequests :
           tx' = [tx EXCEPT ![p] = IF program(req) = <<>> THEN Idle
                                   ELSE [Idle EXCEPT !.pc = 1, !.req = req]]
    /\ UNCHANGED <<players_table, log, game, board>>

Execute(p) ==
    /\ tx[p].pc > 0
    /\ LET prog == program(tx[p].req)
           stmt == prog[tx[p].pc]
           last == tx[p].pc = Len(prog)
           view == IF tx[p].locked THEN tx[p].work ELSE players_table
       IN  IF stmt.op = "commit"
           THEN /\ players_table' = view
                /\ tx' = [tx EXCEPT ![p] =
                              IF last THEN Idle
                              ELSE [@ EXCEPT !.pc = @ + 1, !.locked = FALSE,
                                             !.work = <<>>]]
                /\ log' = IF last THEN Append(log, tx[p].req) ELSE log
           ELSE /\ lock_free(p)
                /\ tx' = [tx EXCEPT ![p] =
                              IF last THEN Idle
                              ELSE [@ EXCEPT !.pc = @ + 1, !.locked = TRUE,
                                             !.work = execute(view, stmt),
                                             !.before = IF @ = None
                                                        THEN Some(players_table)
                                                        ELSE @]]
                /\ UNCHANGED <<players_table, log>>
    /\ UNCHANGED <<game, board>>

Fail(p) ==
    /\ tx[p].pc > 0
    /\ tx' = [tx EXCEPT ![p] = Idle]
    /\ UNCHANGED <<players_table, log, game, board>>

InitStore ==
    /\ session = <<>>
    /\ recorded = <<>>
    /\ players_table = <<>>
    /\ tx = [p \in Procs |-> Idle]
    /\ log = <<>>
    /\ board = <<>>

NextStore == \E p \in Procs : Start(p) \/ Execute(p) \/ Fail(p)

SpecStore == InitStore /\ [][NextStore]_vars

----------------------------------------------------------------------------
(* The states of section 4.3, read off a session *)

Tokens(s) == Get(s, "players", <<>>)
PendingRoll(s) == Get(s, "last_roll", None)
PendingQuestion(s) == Get(s, "current_question", None)

GameOver(s) == \E i \in 1..Len(Tokens(s)) : Tokens(s)[i].pos >= BOARD_SIZE

InSetup(s) == ~HasPlayers(s)
InAwaitingAnswer(s) == HasPlayers(s) /\ Awaiting(s)
InGameOver(s) == HasPlayers(s) /\ ~Awaiting(s) /\ GameOver(s)
InAwaitingRoll(s) == HasPlayers(s) /\ ~Awaiting(s) /\ ~GameOver(s)

(* the names a form supplies: every field that is not blank *)
RECURSIVE supplied(_)
supplied(form) ==
    IF form = <<>> THEN <<>>
    ELSE (IF strip(Head(form)) # <<>> THEN <<strip(Head(form))>> ELSE <<>>)
             \o supplied(Tail(form))

(* every draw a roll could make from the session's pool *)
AllDraws(s) == Dice \X (1..Len(pool(s)))

----------------------------------------------------------------------------
(* Claims *)

(* C1: in every game record_game_result is called exactly once when the *)
(* game reaches GAME_OVER and never a second time: the calls recorded   *)
(* since setup number at most one, and exactly one once a token is at   *)
(* the board size.                                                      *)
C1_RecordedOncePerGame ==
    /\ Len(recorded) <= 1
    /\ GameOver(session) => Len(recorded) = 1

(* C2: in GAME_OVER a roll is not accepted: whatever it would draw, it  *)
(* leaves the session as it is.                                         *)
C2_NoRollInGameOver ==
    InGameOver(session) =>
        \A d \in AllDraws(session) : roll(session, d[1], d[2]) = session

(* C3: a setup with 1 to 4 names, from any state, leaves AWAITING_ROLL: *)
(* one token per name at position 0, turn 0, awaiting_answer false and  *)
(* no pending roll or question.                                         *)
C3_SetupLeavesAwaitingRoll ==
    \A form \in Forms :
        Len(supplied(form)) \in 1..MAX_PLAYERS =>
            LET s2 == setup(session, form)
            IN  /\ Len(Tokens(s2)) = Len(supplied(form))
                /\ \A i \in 1..Len(Tokens(s2)) :
                       /\ Tokens(s2)[i].pos = 0
                       /\ Tokens(s2)[i].name = Prefix(supplied(form)[i], NAME_LEN)
                /\ Get(s2, "turn", 0) = 0
                /\ ~Awaiting(s2)
                /\ PendingRoll(s2) = None
                /\ PendingQuestion(s2) = None
                /\ InAwaitingRoll(s2)

(* the current player's position, and the one an answer leaves that *)
(* player with *)
MoverPos(s) == Tokens(s)[current_index(s)].pos
(* s2 is the session answer() leaves *)
MoverPosAfter(s, s2) == Tokens(s2)[current_index(s)].pos

(* the posted answer, trimmed, is the pending question's expected answer *)
Matches(s, form_answer) == strip(form_answer) = PendingQuestion(s)[1].a

(* answering changes no token but the current player's *)
OthersKept(s, s2) ==
    LET after == Tokens(s2)
    IN  /\ Len(after) = Len(Tokens(s))
        /\ \A i \in 1..Len(after) :
               /\ after[i].name = Tokens(s)[i].name
               /\ i # current_index(s) => after[i].pos = Tokens(s)[i].pos

(* C4: in AWAITING_ANSWER an answer that, trimmed, equals the expected   *)
(* answer puts the current player on old position + pending roll, or on  *)
(* the board size when that is beyond it (then the game is over); the    *)
(* pending roll is one of 1..6.                                          *)
C4_CorrectAnswerAdvances ==
    InAwaitingAnswer(session) =>
        \A form_answer \in Answers :
            Matches(session, form_answer) =>
                LET old == MoverPos(session)
                    r == PendingRoll(session)[1]
                    s2 == answer(session, form_answer).session
                    new == MoverPosAfter(session, s2)
                IN  /\ r \in 1..6
                    /\ old \in 0..BOARD_SIZE
                    /\ new = IF old + r > BOARD_SIZE THEN BOARD_SIZE ELSE old + r
                    /\ OthersKept(session, s2)
                    /\ old + r >= BOARD_SIZE => InGameOver(s2)

(* the example of C4: position 22, roll 5, a padded correct answer pending *)
C4_Witness ==
    /\ InAwaitingAnswer(session)
    /\ MoverPos(session) = 22
    /\ PendingRoll(session) = Some(5)
    /\ Matches(session, <<" ", "4", "\n">>)

(* C5: in AWAITING_ANSWER an answer that differs from the expected one   *)
(* puts the current player one position back, and leaves a player at 0   *)
(* at 0.                                                                 *)
C5_WrongAnswerStepsBack ==
    InAwaitingAnswer(session) =>
        \A form_answer \in Answers :
            ~Matches(session, form_answer) =>
                LET old == MoverPos(session)
                    s2 == answer(session, form_answer).session
                    new == MoverPosAfter(session, s2)
                IN  /\ new = IF old = 0 THEN 0 ELSE old - 1
                    /\ OthersKept(session, s2)

(* a wrong answer is about to be given by a player at position 0 *)
C5_Witness ==
    /\ InAwaitingAnswer(session)
    /\ MoverPos(session) = 0
    /\ Len(Tokens(session)) = 2
    /\ ~Matches(session, <<"4", "2">>)

(* C6: a resolved answer clears the pending roll and question; when the  *)
(* mover is then at the board size the turn stays, otherwise the turn    *)
(* is (turn + 1) mod the number of players and the state AWAITING_ROLL.  *)
C6_AnswerClearsAndAdvances ==
    InAwaitingAnswer(session) =>
        \A form_answer \in Answers :
            LET s2 == answer(session, form_answer).session
                n == Len(Tokens(session))
            IN  /\ PendingRoll(s2) = None
                /\ PendingQuestion(s2) = None
                /\ ~Awaiting(s2)
                /\ session.turn \in 0..(n - 1)
                /\ IF MoverPosAfter(session, s2) >= BOARD_SIZE
                   THEN s2.turn = session.turn
                   ELSE /\ s2.turn = (IF session.turn + 1 = n THEN 0
                                                              ELSE session.turn + 1)
                        /\ InAwaitingRoll(s2)

(* the last of four players is about to answer: the turn wraps to 0 *)
C6_Witness ==
    /\ InAwaitingAnswer(session)
    /\ Len(Tokens(session)) = MAX_PLAYERS
    /\ session.turn = MAX_PLAYERS - 1

(* C7: answer calls record_game_result exactly when it leaves the mover  *)
(* at the board size, once, with the player whose turn it was as winner  *)
(* and the names of all the session's players as participants, the       *)
(* winner among them.                                                    *)
C7_RecordsWinnerAndParticipants ==
    \A form_answer \in Answers :
        LET done == answer(session, form_answer)
            calls == done.calls
        IN  /\ calls # <<>> <=>
                   /\ InAwaitingAnswer(session)
                   /\ MoverPosAfter(session, done.session) >= BOARD_SIZE
            /\ calls # <<>> =>
                   /\ Len(calls) = 1
                   /\ calls[1].winner_name = Tokens(session)[current_index(session)].name
                   /\ Len(calls[1].participant_names) = Len(Tokens(session))
                   /\ \A i \in 1..Len(Tokens(session)) :
                          calls[1].participant_names[i] = Tokens(session)[i].name
                   /\ \E i \in 1..Len(calls[1].participant_names) :
                          calls[1].participant_names[i] = calls[1].winner_name

(* a two-player game has been won and recorded by the second player *)
C7_Witness ==
    /\ Len(recorded) = 1
    /\ Len(recorded[1].participant_names) = 2
    /\ recorded[1].winner_name = Bo
    /\ recorded[1].participant_names = <<Bo, Al>>
    /\ InGameOver(session)

(* C8: a setup supplying no name, or more than 4 names, is a no-op; a   *)
(* setup supplying exactly 4 names succeeds with the turn at 0.         *)
C8_SetupRejectsZeroAndFive ==
    \A form \in Forms :
        /\ Len(supplied(form)) = 0 => setup(session, form) = session
        /\ Len(supplied(form)) > MAX_PLAYERS => setup(session, form) = session
        /\ Len(supplied(form)) = MAX_PLAYERS =>
               /\ Len(Tokens(setup(session, form))) = MAX_PLAYERS
               /\ setup(session, form).turn = 0

(* C9: a roll while AWAITING_ANSWER, a roll with no players and an      *)
(* answer with no pending question leave the session as it is, whatever *)
(* they would draw or post, and record no result.                       *)
C9_OutOfSequenceIgnored ==
    /\ Awaiting(session) \/ ~HasPlayers(session) =>
           \A d \in AllDraws(session) : roll(session, d[1], d[2]) = session
    /\ ~Awaiting(session) =>
           \A form_answer \in Answers :
               /\ answer(session, form_answer).session = session
               /\ answer(session, form_answer).calls = <<>>

(* a roll of 3 is pending for the second of two players *)
C9_Witness ==
    /\ InAwaitingAnswer(session)
    /\ PendingRoll(session) = Some(3)
    /\ session.turn = 1

(* C10: reset, from any state and any pool, gives SETUP: no players,    *)
(* turn 0, awaiting_answer false, no pending roll or question, and the  *)
(* default pool.                                                        *)
C10_ResetGivesSetup ==
    LET s2 == reset(session)
    IN  /\ InSetup(s2)
        /\ "players" \in DOMAIN s2 /\ s2.players = <<>>
        /\ "turn" \in DOMAIN s2 /\ s2.turn = 0
        /\ "awaiting_answer" \in DOMAIN s2 /\ s2.awaiting_answer = FALSE
        /\ PendingRoll(s2) = None
        /\ PendingQuestion(s2) = None
        /\ "questions" \in DOMAIN s2 /\ s2.questions = DEFAULT_QUESTIONS

(* an answer is awaited in a game whose pool holds an uploaded item *)
C10_Witness ==
    /\ InAwaitingAnswer(session)
    /\ UploadedCount(pool(session)) = 1
    /\ Len(pool(session)) = Len(DEFAULT_QUESTIONS) + 1

----------------------------------------------------------------------------
(* Reading the scoreboard.  The table is one the game results can have   *)
(* left: at most MaxRows rows, in any order of creation, one per name,   *)
(* with wins within games_played.                                        *)

MaxRows == 3
BoardNames == {Al, Bo, Cy, Di}
BoardRows ==
    { [name |-> n, wins |-> w, games_played |-> g] :
          n \in BoardNames, w \in {3, 5}, g \in {5, 6} }
BoardTables ==
    UNION { { table \in [1..k -> BoardRows] : OneRowPerName(table) } :
            k \in 0..MaxRows }
Limits == {0, 1, 2, DEFAULT_LIMIT, EXPORT_LIMIT}

InitBoard ==
    /\ session = <<>>
    /\ recorded = <<>>
    /\ players_table \in BoardTables
    /\ tx = [p \in Procs |-> Idle]
    /\ log = <<>>
    /\ board = <<>>

(* a call of top_scoreboard(limit) *)
TopScoreboard ==
    /\ \E limit \in Limits : board' = top_scoreboard(players_table, limit)
    /\ UNCHANGED <<game, store>>

NextBoard == TopScoreboard

SpecBoard == InitBoard /\ [][NextBoard]_vars

----------------------------------------------------------------------------
(* Filling the pool.  Files of one item and of BulkSize items are merged *)
(* into the pool of a session, in any order with new games, resets,      *)
(* setups and rolls, until the pool is full and beyond.                  *)

BulkSize == 145
Batches == { <<>> } \cup { [k \in 1..n |-> Uploaded] : n \in {1, BulkSize} }

PoolUpload ==
    /\ \E new_items \in Batches : session' = upload_questions(session, new_items)
    /\ UNCHANGED <<recorded, store, board>>

PoolSetup ==
    /\ \E form \in Forms : session' = setup(session, form)
    /\ UNCHANGED <<recorded, store, board>>

(* random.choice takes the first or the last question of the pool *)
PoolRoll ==
    /\ \E r \in Dice : \E i \in {1, Len(pool(session))} :
           session' = roll(session, r, i)
    /\ UNCHANGED <<recorded, store, board>>

NextPool == GetIndex \/ PostReset \/ PoolUpload \/ PoolSetup \/ PoolRoll

SpecPool == Init /\ [][NextPool]_vars

----------------------------------------------------------------------------
(* The end of a game of two.  Both tokens are within DuelSpan steps of   *)
(* the finish, either player is to roll, and the game is played on, past *)
(* its end, until it has recorded MaxCalls results; a new game of the    *)
(* same two may be set up at any time.                                   *)

DuelSpan == 2
DuelForm == << <<>>, Bo, <<"\t">>, Al >>
DuelStarts == (BOARD_SIZE - DuelSpan)..(BOARD_SIZE - 1)

InitDuel ==
    /\ \E a, b \in DuelStarts : \E turn \in 0..1 :
           session = Put(Put(new_game, "players",
                             [setup(new_game, DuelForm).players
                                  EXCEPT ![1].pos = a, ![2].pos = b]),
                         "turn", turn)
    /\ recorded = <<>>
    /\ players_table = <<>>
    /\ tx = [p \in Procs |-> Idle]
    /\ log = <<>>
    /\ board = <<>>

(* random.choice takes the first or the last question of the pool *)
DuelRoll ==
    /\ Len(recorded) < MaxCalls
    /\ \E r \in Dice : \E i \in {1, Len(pool(session))} :
           session' = roll(session, r, i)
    /\ UNCHANGED <<recorded, store, board>>

DuelSetup ==
    /\ session' = setup(session, DuelForm)
    /\ recorded' = <<>>
    /\ UNCHANGED <<store, board>>

NextDuel == DuelRoll \/ PostAnswer \/ DuelSetup

SpecDuel == InitDuel /\ [][NextDuel]_vars

----------------------------------------------------------------------------
(* A game of right answers.  One to four players are to roll, all at the *)
(* start (games of one or two) or each within RaceSpan steps of the      *)
(* finish; rolls and right answers follow, with no setup and no reset.   *)
(* The browser posts the roll and then the answer it is asked for, so    *)
(* each of the two keeps being taken while it can be.                    *)

RaceSpan == 2
RaceForms == { <<Al>>, <<Al, Bo>>, <<Al, Bo, Cy>>, <<Al, Bo, Cy, Di>> }
RaceStarts(n) ==
    { [i \in 1..n |-> pos] : pos \in (IF n <= 2 THEN {0} ELSE {}) }
        \cup [1..n -> (BOARD_SIZE - RaceSpan)..(BOARD_SIZE - 1)]

InitRace ==
    /\ \E form \in RaceForms : \E start \in RaceStarts(Len(form)) :
       \E turn \in 0..(Len(form) - 1) :
           session = Put(Put(new_game, "players",
                             [i \in 1..Len(form) |->
                                 [setup(new_game, form).players[i]
                                      EXCEPT !.pos = start[i]]]),
                         "turn", turn)
    /\ recorded = <<>>
    /\ players_table = <<>>
    /\ tx = [p \in Procs |-> Idle]
    /\ log = <<>>
    /\ board = <<>>

(* random.choice takes the first or the last question of the pool *)
RaceRoll ==
    /\ Len(recorded) < MaxCalls
    /\ \E r \in Dice : \E i \in {1, Len(pool(session))} :
           session' = roll(session, r, i)
    /\ UNCHANGED <<recorded, store, board>>

(* the answer posted is the one the pending question expects *)
RaceAnswer ==
    /\ Awaiting(session)
    /\ LET done == answer(session, session.current_question[1].a)
       IN  /\ session' = done.session
           /\ recorded' = recorded \o done.calls
    /\ UNCHANGED <<store, board>>

NextRace == RaceRoll \/ RaceAnswer

SpecRace ==
    InitRace /\ [][NextRace]_vars /\ WF_vars(RaceRoll) /\ WF_vars(RaceAnswer)

----------------------------------------------------------------------------
(* The scoreboard claims, under SpecStore *)

Rows(table) == {table[i] : i \in 1..Len(table)}
Names(ns) == {ns[k] : k \in 1..Len(ns)}
Recorded(i) == log[i].kind = "record"
NoPurge == \A i \in 1..Len(log) : Recorded(i)

(* the completed games in which a player named n took part *)
GamesOf(n) == {i \in 1..Len(log) : Recorded(i) /\ n \in Names(log[i].names)}

(* C11: with no purge among the requests, every stored player's          *)
(* games_played is the number of completed games in which a player of    *)
(* that name took part, also when a game has two players of one name.    *)
C11_GamesPlayedCountsGames ==
    NoPurge =>
        \A row \in Rows(players_table) :
            row.games_played = Cardinality(GamesOf(row.name))

(* C12: whatever game results and purges (all rows, or the rows of a     *)
(* name) have run or are running, every row of the table, committed or   *)
(* in a transaction, has 0 <= wins <= games_played.                      *)
C12_WinsWithinGamesPlayed ==
    /\ \A row \in Rows(players_table) :
           0 <= row.wins /\ row.wins <= row.games_played
    /\ \A p \in Procs : \A row \in Rows(tx[p].work) :
           0 <= row.wins /\ row.wins <= row.games_played

(* a player's rows were deleted between two games the other player took *)
(* part in: one row has won one of its two games, the other its only one *)
C12_Witness ==
    /\ Len(log) = 3
    /\ log[2].kind = "delete_player"
    /\ \E row \in Rows(players_table) : row.wins = 1 /\ row.games_played = 2
    /\ \E row \in Rows(players_table) : row.wins = 1 /\ row.games_played = 1

(* C13: a game result that fails, wherever it fails (before or after the *)
(* inserts, after the games_played updates, after the wins update, or at *)
(* commit), leaves the players table as its first statement found it.    *)
C13_AllOrNothing ==
    [][\A p \in Procs :
          (/\ tx[p].pc > 0
           /\ tx[p].req.kind = "record"
           /\ tx'[p].pc = 0
           /\ log' = log)
          => players_table' = IF tx[p].before = None THEN players_table
                              ELSE tx[p].before[1]]_vars

(* a game result has run all its statements but the commit on a table   *)
(* that had rows: its transaction differs from the committed table      *)
C13_Witness ==
    \E p \in Procs :
        /\ tx[p].req.kind = "record"
        /\ tx[p].pc = Len(program(tx[p].req))
        /\ tx[p].locked
        /\ players_table # <<>>
        /\ tx[p].work # players_table

(* the last request that deleted the rows named n, 0 when there is none *)
PurgedAt(n) ==
    Max(0, CHOOSE i \in 0..Len(log) :
               /\ i > 0 => \/ log[i].kind = "reset"
                           \/ log[i].kind = "delete_player" /\ strip(log[i].name) = n
               /\ \A j \in (i + 1)..Len(log) :
                      /\ log[j].kind # "reset"
                      /\ ~(log[j].kind = "delete_player" /\ strip(log[j].name) = n))

Occurrences(n, ns) == Cardinality({k \in 1..Len(ns) : ns[k] = n})

(* the increments of games_played and of wins the game results from the *)
(* i-th request on ask for the name n *)
RECURSIVE Played(_, _)
Played(n, i) ==
    IF i > Len(log) THEN 0
    ELSE (IF Recorded(i) THEN Occurrences(n, log[i].names) ELSE 0) + Played(n, i + 1)

RECURSIVE Won(_, _)
Won(n, i) ==
    IF i > Len(log) THEN 0
    ELSE (IF Recorded(i) /\ log[i].name = n THEN 1 ELSE 0) + Won(n, i + 1)

StoreNames == UNION { Names(req.names) : req \in GameResults }

(* C14: game results running at the same time on several connections,   *)
(* with names in common, leave the counters that running them one after  *)
(* the other in the order of their commits leaves: every increment asked *)
(* for since the name was last purged is there, once.                    *)
C14_CountersAsInSerialOrder ==
    /\ \A row \in Rows(players_table) :
           /\ row.games_played = Played(row.name, PurgedAt(row.name) + 1)
           /\ row.wins = Won(row.name, PurgedAt(row.name) + 1)
    /\ \A n \in StoreNames :
           has_row(players_table, n) <=> Played(n, PurgedAt(n) + 1) > 0

(* a game result is about to commit while another one with a name in    *)
(* common has started and waits, after a first one has committed         *)
C14_Witness ==
    \E p, q \in Procs :
        /\ p # q
        /\ tx[p].req.kind = "record" /\ tx[q].req.kind = "record"
        /\ Names(tx[p].req.names) \cap Names(tx[q].req.names) # {}
        /\ tx[p].locked /\ tx[p].pc = Len(program(tx[p].req))
        /\ tx[q].pc = 1
        /\ Len(log) > 0 /\ Recorded(1)

Tables == {players_table} \cup {tx[p].work : p \in Procs}

(* C15: a row is created, with zero counters, only for a name that has   *)
(* no row; the table never holds two rows of one name; creating a new    *)
(* name twice creates one row.                                           *)
C15_CreationIdempotent ==
    \A table \in Tables :
        /\ OneRowPerName(table)
        /\ \A n \in StoreNames :
               LET once == insert_or_ignore(table, n)
               IN  /\ has_row(table, n) => once = table
                   /\ ~has_row(table, n) =>
                          once = Append(table, [name |-> n, wins |-> 0,
                                                games_played |-> 0])
                   /\ insert_or_ignore(once, n) = once

(* both inserts of a game of two players of one new name have run: the  *)
(* transaction holds one row of that name, next to an older row         *)
C15_Witness ==
    \E p \in Procs :
        /\ tx[p].req.kind = "record"
        /\ tx[p].req.names = <<Al, Al>>
        /\ tx[p].pc = 3
        /\ ~has_row(players_table, Al)
        /\ Len(players_table) = 1
        /\ Len(tx[p].work) = 2

(* C16: top_scoreboard(limit) returns the first limit rows of the table  *)
(* sorted by wins descending, then name ascending, and leaves the table  *)
(* as it is; A(3), B(3), C(5) come out as C, A, B.                       *)
C16_TopScoreboardRanks ==
    /\ [](\A limit \in Limits :
            LET rows == top_scoreboard(players_table, limit)
                shown == {rows[i].name : i \in 1..Len(rows)}
            IN  /\ Len(rows) = Min(limit, Len(players_table))
                /\ \A i \in 1..Len(rows) :
                       \E row \in Rows(players_table) :
                           /\ row.name = rows[i].name
                           /\ row.wins = rows[i].wins
                           /\ row.games_played = rows[i].games_played
                /\ \A i, j \in 1..Len(rows) :
                       i < j => \/ rows[i].wins > rows[j].wins
                                \/ /\ rows[i].wins = rows[j].wins
                                   /\ name_less(rows[i].name, rows[j].name)
                /\ \A row \in Rows(players_table) :
                       row.name \notin shown =>
                           \A i \in 1..Len(rows) :
                               \/ rows[i].wins > row.wins
                               \/ /\ rows[i].wins = row.wins
                                  /\ name_less(rows[i].name, row.name)
                /\ ({[name |-> row.name, wins |-> row.wins] :
                         row \in Rows(players_table)}
                        = {[name |-> Al, wins |-> 3], [name |-> Bo, wins |-> 3],
                           [name |-> Cy, wins |-> 5]}
                     /\ limit >= 3)
                    => [i \in 1..3 |-> rows[i].name] = <<Cy, Al, Bo>>)
    /\ [][board' # board => players_table' = players_table]_vars

(* the page shows C, A, B for a table created in the order B, C, A *)
C16_Witness ==
    /\ [i \in 1..Len(players_table) |->
           <<players_table[i].name, players_table[i].wins>>]
           = << <<Bo, 3>>, <<Cy, 5>>, <<Al, 3>> >>
    /\ [i \in 1..Len(board) |-> board[i].name] = <<Cy, Al, Bo>>

IsPrefix(a, b) == Len(a) <= Len(b) /\ SubSeq(b, 1, Len(a)) = a

(* C17: after any sequence of new games, resets and uploads the pool a   *)
(* roll draws from holds between 1 and 300 items, an upload appending    *)
(* its items after the ones there and cutting the result at 300.         *)
C17_PoolWithinBounds ==
    /\ Len(pool(session)) >= 1
    /\ Len(pool(session)) <= MAX_QUESTIONS_IN_SESSION
    /\ "questions" \in DOMAIN session =>
           \A new_items \in Batches \ { <<>> } :
               LET merged == pool(upload_questions(session, new_items))
               IN  /\ Len(merged) = Min(Len(session.questions) + Len(new_items),
                                        MAX_QUESTIONS_IN_SESSION)
                   /\ IsPrefix(merged, session.questions \o new_items)
                   /\ IsPrefix(session.questions, merged)

(* a roll has drawn the last question of a full pool, which starts with *)
(* the default questions and ends with an uploaded one                   *)
C17_Witness ==
    /\ Awaiting(session)
    /\ Len(pool(session)) = MAX_QUESTIONS_IN_SESSION
    /\ pool(session)[1] = DEFAULT_QUESTIONS[1]
    /\ session.current_question = Some(Uploaded)

Finished(s) == {i \in 1..Len(Tokens(s)) : Tokens(s)[i].pos >= BOARD_SIZE}
OnTurn(s) == (s.turn % Len(Tokens(s))) + 1

(* C18: at most one player is at or past the board size, and a player   *)
(* gets there only by a step that answers the pending question on that   *)
(* player's own turn.                                                    *)
C18_OneFinisherOnOwnTurn ==
    /\ [](Cardinality(Finished(session)) <= 1)
    /\ [][\A i \in Finished(session') \ Finished(session) :
              /\ Awaiting(session)
              /\ ~Awaiting(session')
              /\ OnTurn(session) = i
              /\ \A j \in 1..Len(Tokens(session')) :
                     j # i => Tokens(session')[j] = Tokens(session)[j]]_vars

(* the second player has finished while the first is one step short: the *)
(* first had finished before, and a wrong answer took it a step back     *)
C18_Witness ==
    /\ Finished(session) = {2}
    /\ Tokens(session)[1].pos = BOARD_SIZE - 1
    /\ Len(recorded) = 2
    /\ recorded[1].winner_name = Tokens(session)[1].name
    /\ recorded[2].winner_name = Tokens(session)[2].name

(* C19: awaiting_answer is true exactly when a roll of 1 to 6 and a      *)
(* question are pending, and then the player list is not empty and the   *)
(* turn is the index of one of its players.                              *)
C19_AwaitingMeansPending ==
    /\ Awaiting(session) <=>
           /\ PendingRoll(session) # None
           /\ PendingRoll(session)[1] \in 1..6
           /\ PendingQuestion(session) # None
    /\ Awaiting(session) =>
           /\ Len(Tokens(session)) >= 1
           /\ session.turn \in 0..(Len(Tokens(session)) - 1)

(* the last of four players has rolled a 6 *)
C19_Witness ==
    /\ Awaiting(session)
    /\ Len(Tokens(session)) = 4
    /\ session.turn = 3
    /\ PendingRoll(session) = Some(6)

(* C20: from a state where one of 1 to 4 players is to roll, rolls and   *)
(* right answers that keep being taken, with no setup and no reset, lead *)
(* to a state where a player is at the board size.                       *)
C20_RightAnswersEndTheGame ==
    (InAwaitingRoll(session) /\ Len(Tokens(session)) \in 1..MAX_PLAYERS)
        ~> GameOver(session)

(* the last of four players has finished, the others one step short *)
C20_Witness ==
    /\ Len(Tokens(session)) = 4
    /\ \A i \in 1..3 : Tokens(session)[i].pos = BOARD_SIZE - 1
    /\ Tokens(session)[4].pos = BOARD_SIZE
    /\ Len(recorded) = 1

====
